---- MODULE Spec2Model ----
(***************************************************************************)
(* A model of src/main.rs: a command-line HTTP client that parses its      *)
(* arguments (clap value parsers parse_url and parse_kv_pair), sends one   *)
(* GET or POST request and prints the response (status line, headers,      *)
(* body, the body highlighted when the content type is html or json).      *)
(*                                                                         *)
(* Strings that the code takes apart (body tokens, response bodies) are    *)
(* sequences of one-character strings.  URL strings and header values are  *)
(* opaque strings; the library parsers applied to them are tables.         *)
(***************************************************************************)
EXTENDS Integers, Sequences, FiniteSets, TLC

VARIABLES
    pc,        \* position of the single task: "parse", "dispatch", "print_all", "text", "done"
    args,      \* the raw command line: [method, url, body (the -b tokens, split on ',')]
    opts,      \* Option<Opts>: <<>> before Opts::parse returns, <<[method, url, body]>> after
    payload,   \* Option: the JSON object handed to send by post, a set of [k, v] entries
    sends,     \* number of calls of RequestBuilder::send
    response,  \* Option<reqwest::Response>: <<[status, headers]>> once send returned Ok
    mime,      \* Option<Mime>: the result of get_content_type
    body,      \* Option<String>: the result of response.text()
    render,    \* which arm print_body took: "none" (not run), "html", "json", "plain"
    stdout,    \* what has been written to standard output, in order
    exit,      \* "none" while running, "ok" (0), "error" (1), "usage" (2, clap), "panic" (101)
    token,     \* input of a stand-alone call of parse_kv_pair
    kv         \* Option<Result<KvPair>>: the result of that call

vars == <<pc, args, opts, payload, sends, response, mime, body, render, stdout, exit, token, kv>>

\* ------------------------------------------------------------------ bounds

MaxTokLen == 5      \* longest token given to a stand-alone parse_kv_pair
MaxArgLen == 2      \* longest -b token on a modelled command line
MaxArgs == 2        \* most -b tokens on a modelled command line
MaxPairs == 3       \* most pairs in a Post handed directly to post
MaxBodyLen == 2     \* longest response body

SeqsUpTo(S, n) == UNION {[1..k -> S] : k \in 0..n}

TokenChars == {"a", "b", "="}
ArgChars == {"a", "="}
BodyChars == {"x", "\n"}

\* ------------------------------------------------------------------ results

Ok(v) == [ok |-> TRUE, val |-> v]
Err(e) == [ok |-> FALSE, val |-> e]

\* ------------------------------------------------------------------ KvPair

\* str::split("="): the pieces between the separators; always at least one piece.
RECURSIVE Split(_)
Split(s) ==
    IF \A i \in DOMAIN s : s[i] # "="
    THEN <<s>>
    ELSE LET i == CHOOSE j \in DOMAIN s : s[j] = "=" /\ \A l \in 1..(j - 1) : s[l] # "="
         IN  <<SubSeq(s, 1, i - 1)>> \o Split(SubSeq(s, i + 1, Len(s)))

\* A plausible slip: a token without '=' gets an empty value instead of an error.
from_str_default(str) ==
    LET split == Split(str)
    IN  IF Len(split) < 1 THEN Err("Failed to parse: no key found")
        ELSE Ok([k |-> split[1], v |-> IF Len(split) < 2 THEN <<>> ELSE split[2]])

\* KvPair::from_str: the first two pieces of the split are the key and the value.
from_str(str) ==
    LET split == Split(str)
    IN  IF Len(split) < 1 THEN Err("Failed to parse: no key found")
        ELSE IF Len(split) < 2 THEN Err("Failed to parse: no value found")
        ELSE Ok([k |-> split[1], v |-> split[2]])

parse_kv_pair(s) == from_str(s)

\* ------------------------------------------------------------------ URL

Urls == {"http://a/", "http://a", "not-a-url", ""}

\* Url::parse followed by String::from: the serialization of the parsed URL.
\* A special-scheme URL with an empty path is serialized with the path "/".
UrlParse(url) ==
    CASE url = "http://a/" -> Ok("http://a/")
      [] url = "http://a" -> Ok("http://a/")
      [] url = "not-a-url" -> Err("relative URL without a base")
      [] url = "" -> Err("relative URL without a base")

\* A plausible slip: the string is passed on unvalidated.
parse_url_unchecked(url) == Ok(url)

parse_url(url) == UrlParse(url)

\* ------------------------------------------------------------------ post's map

\* A plausible slip: an existing entry is kept (entry().or_insert), the first value wins.
insert_keep(map, key, value) ==
    IF \E e \in map : e.k = key THEN map ELSE map \cup {[k |-> key, v |-> value]}

\* HashMap::insert: the entry of an equal key is replaced.
insert(map, key, value) ==
    {e \in map : e.k # key} \cup {[k |-> key, v |-> value]}

\* The loop of post: the pairs are inserted in the order of the vector.
RECURSIVE post_map(_)
post_map(pairs) ==
    IF pairs = <<>> THEN {}
    ELSE LET n == Len(pairs)
         IN  insert(post_map(SubSeq(pairs, 1, n - 1)), pairs[n].k, pairs[n].v)

\* ------------------------------------------------------------------ responses

\* Values a server may send in the Content-Type header.  The last one holds a
\* byte that is not visible ASCII, the one before is no media type.
ContentTypeValues ==
    {"text/html", "TEXT/HTML", "application/json", "text/plain",
     "text/html; charset=utf-8", "garbage", "text/html\\xff"}

StatusCodes == {"200", "404"}

Responses ==
    [status : StatusCodes,
     headers : {<<>>} \cup {<<[name |-> "content-type", value |-> v]>> : v \in ContentTypeValues}]

Bodies == SeqsUpTo(BodyChars, MaxBodyLen)

\* HeaderMap::get(CONTENT_TYPE)
HeaderGet(headers, name) ==
    IF \E i \in DOMAIN headers : headers[i].name = name
    THEN <<headers[CHOOSE i \in DOMAIN headers : headers[i].name = name].value>>
    ELSE <<>>

\* HeaderValue::to_str: an error when a byte is not visible ASCII.
HeaderToStr(v) == IF v = "text/html\\xff" THEN Err("ToStrError") ELSE Ok(v)

\* str::parse::<Mime>: type and subtype are lower-cased, parameters are kept.
MimeParse(v) ==
    CASE v = "text/html" -> Ok([essence |-> "text/html", params |-> ""])
      [] v = "TEXT/HTML" -> Ok([essence |-> "text/html", params |-> ""])
      [] v = "application/json" -> Ok([essence |-> "application/json", params |-> ""])
      [] v = "text/plain" -> Ok([essence |-> "text/plain", params |-> ""])
      [] v = "text/html; charset=utf-8" -> Ok([essence |-> "text/html", params |-> "charset=utf-8"])
      [] OTHER -> Err("FromStrError")

TEXT_HTML == [essence |-> "text/html", params |-> ""]
APPLICATION_JSON == [essence |-> "application/json", params |-> ""]

\* get_content_type: both unwraps are inside the map over the header's value.
\* The result is [panic, val]: val is the Option<Mime> when there is no panic.
get_content_type(r) ==
    LET h == HeaderGet(r.headers, "content-type")
    IN  IF h = <<>> THEN [panic |-> FALSE, val |-> <<>>]
        ELSE IF ~HeaderToStr(h[1]).ok THEN [panic |-> TRUE, val |-> <<>>]
        ELSE IF ~MimeParse(HeaderToStr(h[1]).val).ok THEN [panic |-> TRUE, val |-> <<>>]
        ELSE [panic |-> FALSE, val |-> <<MimeParse(HeaderToStr(h[1]).val).val>>]

\* ------------------------------------------------------------------ printing

\* print_status: println!("{} {}", version, status)
print_status(r) == <<"HTTP/1.1", " ", r.status, "\n">>

\* print_header: one line per header, the value in its Debug form.
RECURSIVE print_header_lines(_)
print_header_lines(headers) ==
    IF headers = <<>> THEN <<>>
    ELSE <<headers[1].name, ": ", headers[1].value, "\n">> \o print_header_lines(Tail(headers))

print_header(r) == print_header_lines(r.headers)

\* LinesWithEndings: the lines of the text, each with its line ending.
RECURSIVE LinesWithEndings(_)
LinesWithEndings(s) ==
    IF s = <<>> THEN <<>>
    ELSE LET i == IF \E j \in DOMAIN s : s[j] = "\n"
                  THEN CHOOSE j \in DOMAIN s : s[j] = "\n" /\ \A l \in 1..(j - 1) : s[l] # "\n"
                  ELSE Len(s)
         IN  <<SubSeq(s, 1, i)>> \o LinesWithEndings(SubSeq(s, i + 1, Len(s)))

\* Extensions the default syntax set knows, among those of interest here.
SyntaxExtensions == {"html", "json"}

ColorCode == "ESC[38;2m"

\* as_24_bit_terminal_escaped on the ranges of each line, printed with print!.
RECURSIVE escaped_lines(_)
escaped_lines(lines) ==
    IF lines = <<>> THEN <<>>
    ELSE (<<ColorCode>> \o lines[1]) \o escaped_lines(Tail(lines))

\* print_with_syntect: [panic, out, code_type]
print_with_syntect(string, code_type) ==
    IF code_type \notin SyntaxExtensions
    THEN [panic |-> TRUE, out |-> <<>>, code_type |-> code_type]
    ELSE [panic |-> FALSE, out |-> escaped_lines(LinesWithEndings(string)), code_type |-> code_type]

\* A plausible slip: the guards compare the essence only and the json arm is lost.
print_body_html_only(option_mime, text) ==
    IF option_mime # <<>> /\ option_mime[1].essence = "text/html"
    THEN print_with_syntect(text, "html")
    ELSE [panic |-> FALSE, out |-> text \o <<"\n">>, code_type |-> "plain"]

\* A plausible slip: the default arm goes through the highlighter too.
print_body_all_colored(option_mime, text) ==
    IF option_mime # <<>> /\ option_mime[1] = TEXT_HTML THEN print_with_syntect(text, "html")
    ELSE IF option_mime # <<>> /\ option_mime[1] = APPLICATION_JSON THEN print_with_syntect(text, "json")
    ELSE [panic |-> FALSE, out |-> <<ColorCode>> \o text \o <<"\n">>, code_type |-> "plain"]

\* print_body: the match on the Option<Mime>; the default arm is println!.
print_body(option_mime, text) ==
    IF option_mime # <<>> /\ option_mime[1] = TEXT_HTML THEN print_with_syntect(text, "html")
    ELSE IF option_mime # <<>> /\ option_mime[1] = APPLICATION_JSON THEN print_with_syntect(text, "json")
    ELSE [panic |-> FALSE, out |-> text \o <<"\n">>, code_type |-> "plain"]

\* ------------------------------------------------------------------ the run

ArgTokens == SeqsUpTo(ArgChars, MaxArgLen)

CommandLines ==
    [method : {"GET"}, url : Urls, body : {<<>>}]
    \cup [method : {"POST"}, url : Urls, body : SeqsUpTo(ArgTokens, MaxArgs)]

Init ==
    /\ pc = "parse"
    /\ args \in CommandLines
    /\ opts = <<>>
    /\ payload = <<>>
    /\ sends = 0
    /\ response = <<>>
    /\ mime = <<>>
    /\ body = <<>>
    /\ render = "none"
    /\ stdout = <<>>
    /\ exit = "none"
    /\ token = <<>>
    /\ kv = <<>>

\* Opts::parse: every value goes through its value parser; on the first error
\* clap prints the usage error to standard error and exits with status 2.
OptsParse ==
    /\ pc = "parse"
    /\ LET u == parse_url(args.url)
           pairs == [i \in DOMAIN args.body |-> parse_kv_pair(args.body[i])]
       IN  IF u.ok /\ \A i \in DOMAIN pairs : pairs[i].ok
           THEN /\ opts' = <<[method |-> args.method, url |-> u.val,
                             body |-> [i \in DOMAIN pairs |-> pairs[i].val]]>>
                /\ pc' = "dispatch"
                /\ exit' = exit
           ELSE /\ opts' = opts
                /\ pc' = "done"
                /\ exit' = "usage"
    /\ UNCHANGED <<args, payload, sends, response, mime, body, render, stdout, token, kv>>

\* send().await?: a transport error ends main with Err, otherwise a response.
Send ==
    /\ sends' = sends + 1
    /\ \/ /\ pc' = "done"
          /\ exit' = "error"
          /\ response' = response
       \/ /\ \E r \in Responses : response' = <<r>>
          /\ pc' = "print_all"
          /\ exit' = exit

\* A plausible slip: a transport error is retried instead of ending the run.
GetRetry ==
    /\ pc = "dispatch"
    /\ opts[1].method = "GET"
    /\ sends < 3
    /\ sends' = sends + 1
    /\ \/ /\ pc' = "dispatch"
          /\ response' = response
       \/ /\ \E r \in Responses : response' = <<r>>
          /\ pc' = "print_all"
    /\ UNCHANGED <<args, opts, payload, mime, body, render, stdout, exit, token, kv>>

\* get, up to the response of send.
Get ==
    /\ pc = "dispatch"
    /\ opts[1].method = "GET"
    /\ Send
    /\ UNCHANGED <<args, opts, payload, mime, body, render, stdout, token, kv>>

\* post, up to the response of send: the map is built, then sent as JSON.
Post ==
    /\ pc = "dispatch"
    /\ opts[1].method = "POST"
    /\ payload' = <<post_map(opts[1].body)>>
    /\ Send
    /\ UNCHANGED <<args, opts, mime, body, render, stdout, token, kv>>

\* print_all up to the await of response.text(): status, headers, content type.
PrintAllBegin ==
    /\ pc = "print_all"
    /\ stdout' = stdout \o print_status(response[1]) \o print_header(response[1])
    /\ LET m == get_content_type(response[1])
       IN  IF m.panic
           THEN /\ pc' = "done"
                /\ exit' = "panic"
                /\ mime' = mime
           ELSE /\ pc' = "text"
                /\ exit' = exit
                /\ mime' = m.val
    /\ UNCHANGED <<args, opts, payload, sends, response, body, render, token, kv>>

\* print_all from the completion of response.text(): an error ends main with
\* Err, otherwise print_body runs and main returns Ok.
PrintAllResume ==
    /\ pc = "text"
    /\ \/ /\ pc' = "done"
          /\ exit' = "error"
          /\ UNCHANGED <<body, render, stdout>>
       \/ \E text \in Bodies :
            LET p == print_body(mime, text)
            IN  /\ body' = <<text>>
                /\ render' = p.code_type
                /\ stdout' = stdout \o p.out
                /\ pc' = "done"
                /\ exit' = IF p.panic THEN "panic" ELSE "ok"
    /\ UNCHANGED <<args, opts, payload, sends, response, mime, token, kv>>

Next == OptsParse \/ Get \/ Post \/ PrintAllBegin \/ PrintAllResume

Spec == Init /\ [][Next]_vars

\* ------------------------------------------------------------------ post alone

PostKeys == {<<>>, <<"a">>, <<"b">>}
PostValues == {<<"a">>, <<"b">>}
KvPairs == [k : PostKeys, v : PostValues]

\* A parsed Post handed to post: any vector of pairs, the URL a parsed one.
InitPost ==
    /\ pc = "dispatch"
    /\ args = [method |-> "POST", url |-> "http://a/", body |-> <<>>]
    /\ opts \in {<<[method |-> "POST", url |-> "http://a/", body |-> b]>> : b \in SeqsUpTo(KvPairs, MaxPairs)}
    /\ payload = <<>>
    /\ sends = 0
    /\ response = <<>>
    /\ mime = <<>>
    /\ body = <<>>
    /\ render = "none"
    /\ stdout = <<>>
    /\ exit = "none"
    /\ token = <<>>
    /\ kv = <<>>

NextPost == Post

SpecPost == InitPost /\ [][NextPost]_vars

\* ------------------------------------------------------------------ parse_kv_pair alone

Tokens == SeqsUpTo(TokenChars, MaxTokLen)

InitKv ==
    /\ pc = "parse_kv_pair"
    /\ args = [method |-> "POST", url |-> "http://a/", body |-> <<>>]
    /\ opts = <<>>
    /\ payload = <<>>
    /\ sends = 0
    /\ response = <<>>
    /\ mime = <<>>
    /\ body = <<>>
    /\ render = "none"
    /\ stdout = <<>>
    /\ exit = "none"
    /\ token \in Tokens
    /\ kv = <<>>

ParseKvPair ==
    /\ pc = "parse_kv_pair"
    /\ kv = <<>>
    /\ kv' = <<parse_kv_pair(token)>>
    /\ pc' = "done"
    /\ UNCHANGED <<args, opts, payload, sends, response, mime, body, render, stdout, exit, token>>

NextKv == ParseKvPair

SpecKv == InitKv /\ [][NextKv]_vars

\* ------------------------------------------------------------------ properties

HasEquals(s) == \E i \in DOMAIN s : s[i] = "="
FirstEquals(s) == CHOOSE i \in DOMAIN s : s[i] = "=" /\ \A l \in 1..(i - 1) : s[l] # "="

\* The URL strings of Urls that are well-formed absolute URIs.
AbsoluteUris == {"http://a/", "http://a"}

BadCommandLine ==
    \/ args.url \notin AbsoluteUris
    \/ \E i \in DOMAIN args.body : ~HasEquals(args.body[i])

C2_SplitOnFirstEquals ==
    (kv # <<>> /\ HasEquals(token) /\ FirstEquals(token) > 1) =>
        /\ kv[1].ok
        /\ kv[1].val.k = SubSeq(token, 1, FirstEquals(token) - 1)
        /\ kv[1].val.v = SubSeq(token, FirstEquals(token) + 1, Len(token))

\* C3: the payload post sends has exactly the keys of the body pairs, one entry
\* per key, and each key's value is that of its last occurrence.
C3_LastValueWins ==
    payload # <<>> =>
        LET m == payload[1]
            b == opts[1].body
        IN  /\ {e.k : e \in m} = {b[i].k : i \in DOMAIN b}
            /\ \A e, f \in m : e.k = f.k => e = f
            /\ \A i \in DOMAIN b :
                 (\A j \in DOMAIN b : j > i => b[j].k # b[i].k)
                     => [k |-> b[i].k, v |-> b[i].v] \in m

C3_Witness ==
    /\ payload # <<>>
    /\ sends = 1
    /\ Len(opts[1].body) = 3
    /\ opts[1].body[1].k = <<"a">>
    /\ opts[1].body[2].k = <<"b">>
    /\ opts[1].body[3].k = <<"a">>
    /\ opts[1].body[1].v # opts[1].body[3].v
    /\ [k |-> <<"a">>, v |-> opts[1].body[3].v] \in payload[1]

\* C4: parsing a string without '=' (the empty string included) as a body pair
\* is an error; no KvPair is produced.
C4_NoEqualsIsError ==
    (kv # <<>> /\ ~HasEquals(token)) => ~kv[1].ok

C4_Witness ==
    /\ kv # <<>>
    /\ token = <<>>
    /\ ~kv[1].ok

\* The content type a response declares, as the claim's table reads it.
Decision(r) ==
    LET h == {r.headers[i].value : i \in DOMAIN r.headers}
    IN  IF h \subseteq {"text/html", "TEXT/HTML"} /\ h # {} THEN "html"
        ELSE IF h = {"application/json"} THEN "json"
        ELSE "plain"

UnparseableContentType ==
    /\ response # <<>>
    /\ \E i \in DOMAIN response[1].headers :
          /\ response[1].headers[i].name = "content-type"
          /\ response[1].headers[i].value \in {"garbage", "text/html\\xff"}

\* C6: with a Content-Type that is no valid text or no media type, the content
\* type is none and the run goes on to print the body plainly; it never ends
\* in a panic.
C6_UnparseableIsNone ==
    UnparseableContentType =>
        /\ exit # "panic"
        /\ mime = <<>>
        /\ pc = "done" /\ exit = "ok" => render = "plain"

\* C7: a run that ends in an error has written nothing to standard output and
\* did not end in a panic.
C7_NoOutputOnFailure ==
    exit \in {"usage", "error", "panic"} => stdout = <<>> /\ exit # "panic"

StagePos(p) ==
    CASE p = "parse" -> 0
      [] p = "dispatch" -> 1
      [] p = "print_all" -> 2
      [] p = "text" -> 3
      [] p = "done" -> 4

C8_StateInv ==
    /\ sends \in {0, 1}
    /\ pc \in {"parse", "dispatch"} => sends = 0 /\ response = <<>> /\ stdout = <<>>
    /\ pc \in {"print_all", "text"} => sends = 1 /\ response # <<>> /\ exit = "none"
    /\ (pc = "done" /\ exit # "usage") => sends = 1
    /\ (pc = "done" /\ exit = "usage") => sends = 0
    /\ stdout # <<>> => response # <<>>
    /\ exit # "none" <=> pc = "done"

C8_Step ==
    /\ StagePos(pc') > StagePos(pc)
    /\ sends' >= sends
    /\ sends' > sends <=> pc = "dispatch"
    /\ response # <<>> => response' = response

\* C8: the run moves forward only (parse, dispatch, print_all, done); a run
\* that passes parsing calls send exactly once, printing starts only with a
\* response, and the first error ends the run (no step follows an exit).
C8_LinearStages == []C8_StateInv /\ [][C8_Step]_vars

C8_Witness ==
    /\ pc = "done"
    /\ exit = "error"
    /\ sends = 1
    /\ response = <<>>
    /\ opts # <<>>

\* C9: no parsed body pair has an empty key.
C9_NoEmptyKey ==
    opts # <<>> => \A i \in DOMAIN opts[1].body : opts[1].body[i].k # <<>>

\* What print_all wrote after the status line and the headers.
BodyOut ==
    SubSeq(stdout, Len(print_status(response[1]) \o print_header(response[1])) + 1, Len(stdout))

\* C10 as stated: in the plain case the body's output is the body text itself.
C10_PlainBodyVerbatim ==
    (pc = "done" /\ render = "plain") => BodyOut = body[1]

\* C10: in the plain case the body's output is the body text followed by one
\* line feed: no color code, nothing else added, nothing removed.
C10_PlainBodyThenNewline ==
    (pc = "done" /\ render = "plain") => BodyOut = body[1] \o <<"\n">>

C10_Witness ==
    /\ pc = "done"
    /\ render = "plain"
    /\ mime = <<[essence |-> "text/plain", params |-> ""]>>
    /\ body = <<<<"x", "\n">>>>
    /\ BodyOut = <<"x", "\n", "\n">>

====
